---- MODULE Spec2Model ----
(***************************************************************************)
(* A model of src/index.js: the startup sequence (TLS material, artifact   *)
(* download, model load, route and extension wiring, listen), the /predict *)
(* handler with its two await points, the onPreResponse extension, and the *)
(* pure confidence-to-label rule of predictClassification.                 *)
(***************************************************************************)
EXTENDS Integers, Sequences, FiniteSets, TLC

\* ---------------------------------------------------------------- bounds
MaxRequests == 2    \* request slots, all of which may be in flight together
HalfUnits == 1      \* a raw score is k / (2 * HalfUnits), 0 <= k <= 2 * HalfUnits
MaxScoreLen == 3    \* longest raw score vector given to the decision rule

\* ------------------------------------------------------ program constants
MaxBytes == 1000000
InputErrorStatus == 400

BUCKET_NAME == "model_mlgc_yasin"
MODEL_PATH == "model.json"
modelWeights ==
    << "group1-shard1of4.bin", "group1-shard2of4.bin",
       "group1-shard3of4.bin", "group1-shard4of4.bin" >>

\* The artifact files in the order loadModel asks for them.
Artifacts == << MODEL_PATH >> \o modelWeights

PredictFailMsg == "Terjadi kesalahan dalam melakukan prediksi"
PredictOkMsg == "Model is predicted successfully"
CancerMsg == "Segera periksa ke dokter!"
NonCancerMsg == "Penyakit kanker tidak terdeteksi."

Requests == 1..MaxRequests
Ids == 1..MaxRequests

\* --------------------------------------------------------------- numbers
\* JavaScript numbers as far as the decision rule meets them: finite values
\* (numerator over ScoreUnits), NaN and -Infinity (Math.max of no argument).
ScoreUnits == 2 * HalfUnits
Fin(n) == [t |-> "fin", v |-> n]
NaN == [t |-> "nan", v |-> 0]
NegInf == [t |-> "-inf", v |-> 0]
ScoreValues == { Fin(k) : k \in 0..ScoreUnits } \cup { NaN }

RECURSIVE SeqsUpTo(_, _)
SeqsUpTo(S, n) ==
    IF n = 0 THEN { << >> }
    ELSE LET shorter == SeqsUpTo(S, n - 1)
         IN  shorter \cup { Append(s, x) : s \in { q \in shorter : Len(q) = n - 1 }, x \in S }
ScoreVecs == SeqsUpTo(ScoreValues, MaxScoreLen)

VARIABLES
    boot,            \* position of module load and of the startup IIFE
    modelDirExists,  \* fs.existsSync(modelDir)
    localFiles,      \* the files in the model directory
    fetching,        \* index in Artifacts of the download in flight, 0 if none
    issued,          \* per artifact, the downloads asked of the blob store by this process
    model,           \* the global assigned by loadModel
    appModel,        \* server.app.model
    routed,          \* the server's route table
    store,           \* the 'predictions' collection: document key -> document
    usedIds,         \* the identifiers crypto.randomUUID has returned
    now,             \* the wall clock as last read
    pc,              \* per request slot, the position of its handler
    req,             \* per request slot, the request as received
    handle,          \* per request slot, the model predict took from server.app
    loc,             \* per request slot, the locals of predict
    thrown,          \* per request slot, the error its handling ended with
    resp,            \* per request slot, the response sent
    calls,           \* per request slot, the calls made on its behalf
    clsIn,           \* the score vector given to the decision rule on its own
    clsOut           \* the decision rule's result for clsIn

vars == << boot, modelDirExists, localFiles, fetching, issued, model, appModel,
           routed, store, usedIds, now, pc, req, handle, loc, thrown, resp,
           calls,           clsIn, clsOut >>

startupVars == << boot, modelDirExists, localFiles, fetching, issued, model,
                  appModel, routed >>
requestVars == << store, usedIds, now, pc, req, handle, loc, thrown, resp, calls >>
classifyVars == << clsIn, clsOut >>

NoModel == "none"
LoadedModel == "graph"
NoReq == [path |-> "", size |-> 0, mime |-> "", image |-> [kind |-> "", scores |-> << >>]]
NoLoc == [label |-> "", suggestion |-> "", id |-> 0, createdAt |-> 0]
NoResp == [code |-> 0]
NoError == [name |-> "", message |-> "", statusCode |-> 0, isBoom |-> FALSE, output |-> 0]
NoCalls == [decode |-> 0, predict |-> 0, data |-> 0, store |-> 0]
NoResult == [label |-> "", suggestion |-> ""]

\* ------------------------------------------------------- the decision rule
\* Math.max of two numbers: NaN wins over everything, -Infinity loses.
Max2(a, b) ==
    IF a.t = "nan" \/ b.t = "nan" THEN NaN
    ELSE IF a.t = "-inf" THEN b
    ELSE IF b.t = "-inf" THEN a
    ELSE IF a.v >= b.v THEN a ELSE b

\* Math.max(...score)
RECURSIVE MathMax(_)
MathMax(score) ==
    IF score = << >> THEN NegInf
    ELSE Max2(Head(score), MathMax(Tail(score)))

\* x * 100, the result again a numerator over ScoreUnits
Times100(x) == IF x.t = "fin" THEN Fin(x.v * 100) ELSE x

\* x <= n for a finite integer n; every comparison with NaN is false
LessEqInt(x, n) ==
    CASE x.t = "nan" -> FALSE
      [] x.t = "-inf" -> TRUE
      [] OTHER -> x.v <= n * ScoreUnits

ClassifyMutStrict(score) ==
    LET confidenceScore == Times100(MathMax(score))
        label == IF LessEqInt(confidenceScore, 50) /\ confidenceScore # Fin(50 * ScoreUnits)
                 THEN "Non-cancer" ELSE "Cancer"
    IN  [label |-> label,
         suggestion |-> IF label = "Cancer" THEN CancerMsg ELSE NonCancerMsg]

\* predictClassification, from the score read-out to the return
Classify(score) ==
    LET confidenceScore == Times100(MathMax(score))
        label == IF LessEqInt(confidenceScore, 50) THEN "Non-cancer" ELSE "Cancer"
    IN  [label |-> label,
         suggestion |-> IF label = "Cancer" THEN CancerMsg ELSE NonCancerMsg]

\* ------------------------------------------------------ errors, responses
\* class InputError
InputError(message) ==
    [name |-> "InputError", message |-> message, statusCode |-> InputErrorStatus,
     isBoom |-> FALSE, output |-> 0]

\* An error of the record store's client: connectivity or quota.
StoreErrors ==
    { [name |-> "Error", message |-> m, statusCode |-> 0, isBoom |-> FALSE, output |-> 0]
        : m \in { "14 UNAVAILABLE", "8 RESOURCE_EXHAUSTED" } }

\* An error the framework raises itself, before any handler runs.
Boom(status, message) ==
    [name |-> "Error", message |-> message, statusCode |-> 0,
     isBoom |-> TRUE, output |-> status]

\* What the framework does with an error a handler threw: it keeps the error
\* object, its class and its own properties, and gives it an output status.
Boomify(err) ==
    IF err.isBoom THEN err ELSE [err EXCEPT !.isBoom = TRUE, !.output = 500]

Fail(code, message) ==
    [name |-> "Response", code |-> code,
     body |-> [status |-> "fail", message |-> message]]

OnPreResponseMutNoBoom(response) ==
    IF response.name = "InputError"
    THEN Fail(response.statusCode, response.message)
    ELSE IF response.name # "Response"
    THEN [name |-> "Response", code |-> response.output,
          body |-> [statusCode |-> response.output, error |-> "Error",
                    message |-> response.message]]
    ELSE response

OnPreResponseMutMask(response) ==
    IF response.name = "InputError"
    THEN Fail(response.statusCode, response.message)
    ELSE IF response.name # "Response" /\ response.isBoom
    THEN Fail(response.output, "An internal server error occurred")
    ELSE response

OnPreResponseMutBoomFirst(response) ==
    IF response.name # "Response" /\ response.isBoom
    THEN Fail(response.output, response.message)
    ELSE IF response.name = "InputError"
    THEN Fail(response.statusCode, response.message)
    ELSE response

\* The onPreResponse extension; returning h.continue leaves the response as is.
OnPreResponse(response) ==
    IF response.name = "InputError"
    THEN Fail(response.statusCode, response.message)
    ELSE IF response.name # "Response" /\ response.isBoom
    THEN Fail(response.output, response.message)
    ELSE response

\* What the caller receives: the status code and the body.
Sent(response) == [code |-> response.code, body |-> response.body]

\* A handler's rejection, through the framework and the extension, to the wire.
SendError(err) == Sent(OnPreResponse(Boomify(err)))

\* ------------------------------------------------------------- the inputs
\* The image field of a multipart payload: absent, bytes that are no JPEG, or
\* a JPEG, which stands for the raw scores the loaded graph computes from it.
NoImage == [kind |-> "undefined", scores |-> << >>]
NotJpeg == [kind |-> "bytes", scores |-> << >>]
Jpeg(s) == [kind |-> "jpeg", scores |-> << s >>]
\* The JPEGs sent: one scored below one half, one exactly one half, one above.
JpegScores == { Fin(0), Fin(HalfUnits), Fin(ScoreUnits) }
Images == { NoImage, NotJpeg } \cup { Jpeg(s) : s \in JpegScores }

Multipart == "multipart/form-data"

\* The route table
routes ==
    { [path |-> "/predict", method |-> "POST", handler |-> "predict",
       allow |-> Multipart, maxBytes |-> MaxBytes] }

\* The requests a client sends: to the listing path, with a body over the
\* limit, with a body that is not multipart, and well-formed ones.
Inputs ==
    { [path |-> "/predict/histories", size |-> 0, mime |-> "", image |-> NoImage],
      [path |-> "/predict", size |-> MaxBytes + 1, mime |-> Multipart, image |-> NotJpeg],
      [path |-> "/predict", size |-> MaxBytes, mime |-> "application/json", image |-> NoImage] }
    \cup { [path |-> "/predict", size |-> MaxBytes, mime |-> Multipart, image |-> img]
             : img \in Images }

\* The framework's own answer to a request, before the handler: no route,
\* body over the route's maxBytes, content type outside the route's allow.
\* "pass" when the request reaches the handler.
Framework(q) ==
    LET hit == { rt \in routed : rt.path = q.path }
    IN  IF hit = {} THEN Boom(404, "Not Found")
        ELSE LET rt == CHOOSE x \in hit : TRUE
             IN  IF q.size > rt.maxBytes
                 THEN Boom(413, "Payload content length greater than maximum allowed")
                 ELSE IF q.mime # rt.allow
                 THEN Boom(415, "Unsupported Media Type")
                 ELSE [name |-> "pass", message |-> "", statusCode |-> 0,
                       isBoom |-> FALSE, output |-> 0]

\* ----------------------------------------------------------------- Init
Prefix(n) == { Artifacts[i] : i \in 1..n }

\* The model directory is absent, or holds what an earlier startup left in
\* it: the first n artifact files.
Init ==
    /\ boot = "tls"
    /\ modelDirExists \in BOOLEAN
    /\ \E n \in 0..Len(Artifacts) :
          localFiles = IF modelDirExists THEN Prefix(n) ELSE {}
    /\ fetching = 0
    /\ issued = [i \in 1..Len(Artifacts) |-> 0]
    /\ model = NoModel
    /\ appModel = NoModel
    /\ routed = {}
    /\ store = << >>
    /\ usedIds = {}
    /\ now = 0
    /\ pc = [r \in Requests |-> "idle"]
    /\ req = [r \in Requests |-> NoReq]
    /\ handle = [r \in Requests |-> NoModel]
    /\ loc = [r \in Requests |-> NoLoc]
    /\ thrown = [r \in Requests |-> NoError]
    /\ resp = [r \in Requests |-> NoResp]
    /\ calls = [r \in Requests |-> NoCalls]
    /\ clsIn = << >>
    /\ clsOut = NoResult

\* The decision rule on its own: any raw score vector, not yet classified.
InitClassify ==
    /\ boot = "tls"
    /\ modelDirExists = FALSE
    /\ localFiles = {}
    /\ fetching = 0
    /\ issued = [i \in 1..Len(Artifacts) |-> 0]
    /\ model = NoModel
    /\ appModel = NoModel
    /\ routed = {}
    /\ store = << >>
    /\ usedIds = {}
    /\ now = 0
    /\ pc = [r \in Requests |-> "idle"]
    /\ req = [r \in Requests |-> NoReq]
    /\ handle = [r \in Requests |-> NoModel]
    /\ loc = [r \in Requests |-> NoLoc]
    /\ thrown = [r \in Requests |-> NoError]
    /\ resp = [r \in Requests |-> NoResp]
    /\ calls = [r \in Requests |-> NoCalls]
    /\ clsIn \in ScoreVecs
    /\ clsOut = NoResult

\* Lines 73 to 81 of predictClassification applied to the score vector.
ClassifyApply ==
    /\ clsOut = NoResult
    /\ clsOut' = Classify(clsIn)
    /\ clsIn' = clsIn
    /\ UNCHANGED startupVars
    /\ UNCHANGED requestVars

\* -------------------------------------------------------------- startup
\* Module load: the key and the certificate are read synchronously; a missing
\* file throws and the process ends.
ReadTls ==
    /\ boot = "tls"
    /\ \E ok \in BOOLEAN : boot' = IF ok THEN "main" ELSE "aborted"
    /\ UNCHANGED << modelDirExists, localFiles, fetching, issued, model, appModel, routed >>
    /\ UNCHANGED requestVars
    /\ UNCHANGED classifyVars

DownloadWantedMutCached(i) == Artifacts[i] \notin localFiles

\* Whether loadModel asks the blob store for artifact i: always.
DownloadWanted(i) == TRUE

NextFetchMutRepeat(i) ==
    IF i > Len(Artifacts) THEN 0
    ELSE IF i > 1 /\ issued[i - 1] < 2 THEN i - 1
    ELSE i

\* The artifact downloadFile is called for next, from i on; 0 when none is left.
RECURSIVE NextFetch(_)
NextFetch(i) ==
    IF i > Len(Artifacts) THEN 0
    ELSE IF DownloadWanted(i) THEN i ELSE NextFetch(i + 1)

\* The effect of loadModel moving on from artifact i - 1: the next download is
\* issued, or, none being left, tf.loadGraphModel is.
FetchFrom(i) ==
    LET n == NextFetch(i)
    IN  /\ fetching' = n
        /\ issued' = IF n = 0 THEN issued ELSE [issued EXCEPT ![n] = @ + 1]
        /\ boot' = IF n = 0 THEN "loading" ELSE "downloading"

\* The IIFE up to its first await: the server object is made, loadModel makes
\* the model directory if it is absent and asks for model.json.
LoadModelBegin ==
    /\ boot = "main"
    /\ modelDirExists' = TRUE
    /\ FetchFrom(1)
    /\ UNCHANGED << localFiles, model, appModel, routed >>
    /\ UNCHANGED requestVars
    /\ UNCHANGED classifyVars

\* A download completes: the file is in the model directory, and loadModel
\* goes on to the next file or to the graph load.
DownloadDone ==
    /\ boot = "downloading"
    /\ localFiles' = localFiles \cup { Artifacts[fetching] }
    /\ FetchFrom(fetching + 1)
    /\ UNCHANGED << modelDirExists, model, appModel, routed >>
    /\ UNCHANGED requestVars
    /\ UNCHANGED classifyVars

\* A download fails: loadModel rejects, nothing catches it in the IIFE.
DownloadFail ==
    /\ boot = "downloading"
    /\ boot' = "aborted"
    /\ fetching' = 0
    /\ UNCHANGED << modelDirExists, localFiles, issued, model, appModel, routed >>
    /\ UNCHANGED requestVars
    /\ UNCHANGED classifyVars

InstallMutUnset(m) == NoModel

\* server.app.model = model: what the IIFE installs for the handlers is the
\* model loadModel returned.
Install(m) == m

\* tf.loadGraphModel resolves: the global and server.app.model are assigned,
\* the routes and the extension are registered, server.start() is called.
ModelLoaded ==
    /\ boot = "loading"
    /\ model' = LoadedModel
    /\ appModel' = Install(LoadedModel)
    /\ routed' = routes
    /\ boot' = "starting"
    /\ UNCHANGED << modelDirExists, localFiles, fetching, issued >>
    /\ UNCHANGED requestVars
    /\ UNCHANGED classifyVars

\* tf.loadGraphModel rejects (a malformed topology, a missing shard).
ModelLoadFail ==
    /\ boot = "loading"
    /\ boot' = "aborted"
    /\ UNCHANGED << modelDirExists, localFiles, fetching, issued, model, appModel, routed >>
    /\ UNCHANGED requestVars
    /\ UNCHANGED classifyVars

\* server.start() resolves: the server listens.
Started ==
    /\ boot = "starting"
    /\ boot' = "serving"
    /\ UNCHANGED << modelDirExists, localFiles, fetching, issued, model, appModel, routed >>
    /\ UNCHANGED requestVars
    /\ UNCHANGED classifyVars

\* server.start() rejects (the port is taken).
StartFail ==
    /\ boot = "starting"
    /\ boot' = "aborted"
    /\ UNCHANGED << modelDirExists, localFiles, fetching, issued, model, appModel, routed >>
    /\ UNCHANGED requestVars
    /\ UNCHANGED classifyVars

ListeningMutNoAwait == boot \notin { "tls", "main", "aborted" }

\* The server accepts requests once server.start() has resolved, which the
\* IIFE calls after the await of loadModel.
Listening == boot = "serving"

\* --------------------------------------------------------------- requests
OutcomeMutSwap(l) ==
    [id |-> l.id, result |-> l.suggestion, suggestion |-> l.label,
     createdAt |-> l.createdAt]

\* The data object predict assembles from its locals.
Outcome(l) ==
    [id |-> l.id, result |-> l.label, suggestion |-> l.suggestion,
     createdAt |-> l.createdAt]

\* predictCollection.doc(id).set(data): the document under key id becomes data.
DocSet(db, id, data) ==
    [k \in (DOMAIN db) \cup { id } |-> IF k = id THEN data ELSE db[k]]

\* model.predict(tensor) followed by prediction.data(): the raw scores.
ModelScores(image) == image.scores

\* The request ends with the handler's response.
Finish(r, response) ==
    /\ pc' = [pc EXCEPT ![r] = "done"]
    /\ resp' = [resp EXCEPT ![r] = Sent(OnPreResponse(response))]
    /\ thrown' = thrown

\* The request ends with an error: the framework's own or the handler's.
Throw(r, err) ==
    /\ pc' = [pc EXCEPT ![r] = "done"]
    /\ resp' = [resp EXCEPT ![r] = SendError(err)]
    /\ thrown' = [thrown EXCEPT ![r] = err]

\* A request the framework answers itself: no route for the path, a body
\* over maxBytes, a content type that is not multipart/form-data.
Reject(r, q) ==
    /\ Listening
    /\ pc[r] = "idle"
    /\ Framework(q).name # "pass"
    /\ req' = [req EXCEPT ![r] = q]
    /\ Throw(r, Framework(q))
    /\ UNCHANGED << store, usedIds, now, handle, loc, calls >>
    /\ UNCHANGED startupVars
    /\ UNCHANGED classifyVars

LocalsMutShared(r) ==
    IF \E q \in Requests : q # r /\ loc[q] # NoLoc
    THEN loc[CHOOSE q \in Requests : q # r /\ loc[q] # NoLoc]
    ELSE loc[r]

\* label, suggestion, id and createdAt are constants of one invocation of
\* predict: each request has its own.
Locals(r) == loc[r]

StoreSettledMutNoAwait(r) == pc[r] \in { "storing", "stored" }

\* predict goes on past its await of storeData once the write has resolved.
StoreSettled(r) == pc[r] = "stored"

FreshIdsMutReuse == Ids

\* The identifier crypto.randomUUID returns: one it has not returned before.
FreshIds == Ids \ usedIds

\* What predictClassification finds wrong before its await, "" if nothing:
\* decodeJpeg throws on an absent image and on bytes that are no JPEG;
\* model.predict may throw on the decoded tensor.
SyncFailure(image, predictOk) ==
    IF image.kind # "jpeg" THEN "decode"
    ELSE IF ~predictOk THEN "predict"
    ELSE ""

SyncCallsMutGuarded(image, predictOk) ==
    [decode |-> IF image.kind = "undefined" THEN 0 ELSE 1,
     predict |-> IF image.kind = "jpeg" THEN 1 ELSE 0,
     data |-> IF SyncFailure(image, predictOk) = "" THEN 1 ELSE 0,
     store |-> 0]

SyncCallsMutRetry(image, predictOk) ==
    [decode |-> 1,
     predict |-> IF image.kind # "jpeg" THEN 0 ELSE IF predictOk THEN 1 ELSE 2,
     data |-> IF SyncFailure(image, predictOk) = "" THEN 1 ELSE 0,
     store |-> 0]

\* The calls predictClassification makes before its await, for an image:
\* decodeJpeg always, model.predict and prediction.data() as far as it gets.
SyncCalls(image, predictOk) ==
    [decode |-> 1,
     predict |-> IF image.kind = "jpeg" THEN 1 ELSE 0,
     data |-> IF SyncFailure(image, predictOk) = "" THEN 1 ELSE 0,
     store |-> 0]

\* predict up to the await inside predictClassification, for a request that
\* reaches the handler. A throw in the try block is caught and becomes an
\* InputError, which rejects the handler.
PredictBegin(r, q) ==
    /\ Listening
    /\ pc[r] = "idle"
    /\ Framework(q).name = "pass"
    /\ req' = [req EXCEPT ![r] = q]
    /\ \E predictOk \in BOOLEAN :
          /\ calls' = [calls EXCEPT ![r] = SyncCalls(q.image, predictOk)]
          /\ IF SyncFailure(q.image, predictOk) = ""
             THEN /\ pc' = [pc EXCEPT ![r] = "scoring"]
                  /\ UNCHANGED << resp, thrown >>
             ELSE Throw(r, InputError(PredictFailMsg))
    /\ handle' = [handle EXCEPT ![r] = appModel]
    /\ UNCHANGED << store, usedIds, now, loc >>
    /\ UNCHANGED startupVars
    /\ UNCHANGED classifyVars

\* prediction.data() rejects: caught, InputError, the handler rejects.
ScoreFail(r) ==
    /\ pc[r] = "scoring"
    /\ Throw(r, InputError(PredictFailMsg))
    /\ UNCHANGED << store, usedIds, now, req, handle, loc, calls >>
    /\ UNCHANGED startupVars
    /\ UNCHANGED classifyVars

\* prediction.data() resolves: the label and the suggestion are decided, the
\* identifier and the timestamp are taken, the record is assembled and
\* storeData is called with it; predict awaits the write.
ScoreReady(r) ==
    /\ pc[r] = "scoring"
    /\ \E id \in FreshIds, t \in { now, now + 1 } :
          LET c == Classify(ModelScores(req[r].image))
          IN  /\ loc' = [loc EXCEPT ![r] = [label |-> c.label, suggestion |-> c.suggestion,
                                             id |-> id, createdAt |-> t]]
              /\ usedIds' = usedIds \cup { id }
              /\ now' = t
    /\ calls' = [calls EXCEPT ![r].store = @ + 1]
    /\ pc' = [pc EXCEPT ![r] = "storing"]
    /\ UNCHANGED << store, req, handle, thrown, resp >>
    /\ UNCHANGED startupVars
    /\ UNCHANGED classifyVars

DocKeyMutAuto(l) == l.id + MaxRequests

\* storeData(id, data): the document key predict passes is the id it put
\* into data.
DocKey(l) == l.id

\* The record store applies the write.
StoreWrite(r) ==
    /\ pc[r] = "storing"
    /\ store' = DocSet(store, DocKey(Locals(r)), Outcome(Locals(r)))
    /\ pc' = [pc EXCEPT ![r] = "stored"]
    /\ UNCHANGED << usedIds, now, req, handle, loc, thrown, resp, calls >>
    /\ UNCHANGED startupVars
    /\ UNCHANGED classifyVars

\* The write fails: storeData rejects, predict rejects with the store's error.
StoreFail(r, e) ==
    /\ pc[r] = "storing"
    /\ Throw(r, e)
    /\ UNCHANGED << store, usedIds, now, req, handle, loc, calls >>
    /\ UNCHANGED startupVars
    /\ UNCHANGED classifyVars

\* The response predict builds once the await of storeData has returned.
Success(data) ==
    [name |-> "Response", code |-> 201,
     body |-> [status |-> "success", message |-> PredictOkMsg, data |-> data]]

\* storeData has resolved: predict returns the 201 response.
Respond(r) ==
    /\ StoreSettled(r)
    /\ Finish(r, Success(Outcome(Locals(r))))
    /\ UNCHANGED << store, usedIds, now, req, handle, loc, calls >>
    /\ UNCHANGED startupVars
    /\ UNCHANGED classifyVars

\* ------------------------------------------------------------------ Spec
Next ==
    \/ ReadTls
    \/ LoadModelBegin
    \/ DownloadDone
    \/ DownloadFail
    \/ ModelLoaded
    \/ ModelLoadFail
    \/ Started
    \/ StartFail
    \/ \E r \in Requests, q \in Inputs : Reject(r, q)
    \/ \E r \in Requests, q \in Inputs : PredictBegin(r, q)
    \/ \E r \in Requests : ScoreFail(r)
    \/ \E r \in Requests : ScoreReady(r)
    \/ \E r \in Requests : StoreWrite(r)
    \/ \E r \in Requests, e \in StoreErrors : StoreFail(r, e)
    \/ \E r \in Requests : Respond(r)

Spec == Init /\ [][Next]_vars

SpecClassify == InitClassify /\ [][ClassifyApply]_vars

\* Each external call a request waits on returns or fails, and a handler
\* whose await has resolved is run on by the event loop.
Fairness ==
    \A r \in Requests :
        /\ WF_vars(ScoreReady(r) \/ ScoreFail(r))
        /\ WF_vars(StoreWrite(r) \/ \E e \in StoreErrors : StoreFail(r, e))
        /\ WF_vars(Respond(r))

FairSpec == Init /\ [][Next]_vars /\ Fairness

\* ----------------------------------------------------------------- claims
NonCancer == [label |-> "Non-cancer", suggestion |-> NonCancerMsg]
Cancer == [label |-> "Cancer", suggestion |-> CancerMsg]
AllFinite(score) == \A i \in DOMAIN score : score[i].t = "fin"

\* C1: for a raw score vector of finite scores, with confidence 100 times the
\* largest of them, the decision rule returns "Non-cancer" with its message
\* when the confidence is at most 50 (no element's hundredfold exceeds 50),
\* and "Cancer" with its message when it is above 50.
C1_Threshold ==
    (clsOut # NoResult /\ AllFinite(clsIn)) =>
        /\ (\A i \in DOMAIN clsIn : clsIn[i].v * 100 <= 50 * ScoreUnits) => clsOut = NonCancer
        /\ (\E i \in DOMAIN clsIn : clsIn[i].v * 100 > 50 * ScoreUnits) => clsOut = Cancer

\* A vector of two or more scores whose largest is exactly one half has been
\* classified.
C1_Witness ==
    /\ clsOut = NonCancer
    /\ Len(clsIn) >= 2
    /\ AllFinite(clsIn)
    /\ \E i \in DOMAIN clsIn : clsIn[i].v * 100 = 50 * ScoreUnits
    /\ \A i \in DOMAIN clsIn : clsIn[i].v * 100 <= 50 * ScoreUnits

\* C2: a request answered 201 has made its store call, the write has been
\* applied, and the data object of the response is the document stored under
\* the response's id.
C2_RespondAfterStore ==
    \A r \in Requests :
        resp[r].code = 201 =>
            /\ calls[r].store = 1
            /\ resp[r].body.status = "success"
            /\ resp[r].body.data.id \in DOMAIN store
            /\ store[resp[r].body.data.id] = resp[r].body.data

C2_Witness ==
    \E r \in Requests : resp[r].code = 201 /\ pc[r] = "done"

\* A request whose handler ended because decode, model invocation or score
\* read-out failed: it reached the handler and never reached storeData.
ClassificationFailed(r) ==
    pc[r] = "done" /\ calls[r].decode = 1 /\ calls[r].store = 0

\* C3: a request whose decode, model invocation or score read-out failed is
\* answered 400 with {status: "fail", message} carrying the one fixed,
\* non-empty message; no identifier was taken and no document written for
\* it, and the server is still serving.
C3_ClassificationFailure ==
    \A r \in Requests :
        ClassificationFailed(r) =>
            /\ resp[r] = [code |-> 400,
                          body |-> [status |-> "fail", message |-> PredictFailMsg]]
            /\ PredictFailMsg # ""
            /\ loc[r] = NoLoc
            /\ \A k \in DOMAIN store : \E q \in Requests \ { r } : loc[q].id = k
            /\ boot = "serving"

\* Bytes that are no JPEG were answered 400 and, in the same state, a second
\* request that arrived is past its classification and has been stored.
C3_Witness ==
    \E r, q \in Requests :
        /\ ClassificationFailed(r)
        /\ req[r].image = NotJpeg
        /\ resp[r].code = 400
        /\ pc[q] = "stored"

\* C4: a request whose store call failed is never answered 201 nor 400: it
\* is answered with the status the framework gives the store's error, a
\* server-class one, and {status: "fail", message} carrying that error's
\* own message.
C4_StoreFailureSurfaced ==
    \A r \in Requests :
        thrown[r] \in StoreErrors =>
            /\ pc[r] = "done"
            /\ calls[r].store = 1
            /\ resp[r].code \notin { 201, 400 }
            /\ resp[r].code >= 500
            /\ resp[r].code = Boomify(thrown[r]).output
            /\ resp[r].body = [status |-> "fail", message |-> thrown[r].message]
            /\ Locals(r).id \notin DOMAIN store

\* Two requests were classified and both store calls failed, each with its
\* own error.
C4_Witness ==
    \E r, q \in Requests :
        /\ thrown[r] \in StoreErrors
        /\ thrown[q] \in StoreErrors
        /\ thrown[r].message # thrown[q].message
        /\ resp[r].body.message # resp[q].body.message

StartupComplete ==
    /\ fetching = 0
    /\ \A i \in 1..Len(Artifacts) : issued[i] >= 1 /\ Artifacts[i] \in localFiles
    /\ model = LoadedModel
    /\ appModel = LoadedModel

\* C5: the server is serving, or has taken up a request, only when the
\* topology file and the four shards have been fetched and the model is
\* loaded and installed; a startup that failed has handled no request, and
\* stays failed.
C5_ServeOnlyAfterLoad ==
    /\ [](((boot = "serving") \/ (\E r \in Requests : pc[r] # "idle")) => StartupComplete)
    /\ [](boot = "aborted" => \A r \in Requests : pc[r] = "idle" /\ resp[r] = NoResp)
    /\ [][boot = "aborted" => boot' = "aborted"]_vars

\* The server is serving and a request is being handled.
C5_Witness ==
    /\ boot = "serving"
    /\ StartupComplete
    /\ \E r \in Requests : pc[r] = "scoring"

\* The outcome request r's own image, identifier and timestamp make.
OwnOutcome(r) ==
    LET c == Classify(ModelScores(req[r].image))
    IN  [id |-> loc[r].id, result |-> c.label, suggestion |-> c.suggestion,
         createdAt |-> loc[r].createdAt]

\* C6: whatever the interleaving, the document written for a request and
\* the data of its 201 response are the outcome of that request's own image,
\* identifier and timestamp, and no two requests share an identifier.
C6_NoCrossRequestLeak ==
    \A r \in Requests :
        /\ (pc[r] = "stored" \/ resp[r].code = 201) =>
              /\ loc[r].id \in DOMAIN store
              /\ store[loc[r].id] = OwnOutcome(r)
        /\ resp[r].code = 201 => resp[r].body.data = OwnOutcome(r)
        /\ \A q \in Requests \ { r } : loc[r].id # 0 => loc[q].id # loc[r].id

\* Two requests in flight together, one image above the threshold and one
\* not, both written and neither answered yet.
C6_Witness ==
    \E r, q \in Requests :
        /\ pc[r] = "stored"
        /\ pc[q] = "stored"
        /\ loc[r].label = "Cancer"
        /\ loc[q].label = "Non-cancer"

\* The listing of the record store as postPredictHistoriesHandler formats it.
Listing(db) ==
    { [id |-> k,
       history |-> [result |-> db[k].result, createdAt |-> db[k].createdAt,
                    suggestion |-> db[k].suggestion, id |-> k]] : k \in DOMAIN db }

\* C7: a request to /predict/histories that arrives when predictions have
\* succeeded and none is in flight is answered 200 with exactly one record
\* per stored outcome, each carrying the stored fields.
C7_ListingReturnsAll ==
    [][\A r \in Requests :
         ( /\ pc[r] = "idle"
           /\ pc'[r] = "done"
           /\ req'[r].path = "/predict/histories"
           /\ \E q \in Requests : resp[q].code = 201
           /\ \A q \in Requests : pc[q] \in { "idle", "done" } ) =>
             /\ resp'[r].code = 200
             /\ resp'[r].body.status = "success"
             /\ resp'[r].body.data = Listing(store)]_vars

\* A multipart request to /predict that carries no image field.
NoImageField(r) ==
    /\ req[r].path = "/predict"
    /\ req[r].mime = Multipart
    /\ req[r].size <= MaxBytes
    /\ req[r].image = NoImage

\* C8 as stated: a request with no image field is rejected 400 before the
\* decode step is invoked.
C8_RejectedBeforeDecode ==
    \A r \in Requests :
        (pc[r] = "done" /\ NoImageField(r)) =>
            /\ resp[r].code = 400
            /\ calls[r].decode = 0

\* C8 as the code has it: a request with no image field is rejected 400 with
\* the {status: "fail", message} body of a decode failure, and by the same
\* path: the handler runs, the decode step is invoked once on the absent
\* image, and its throw is caught and becomes the InputError; the model is
\* not invoked and nothing is stored.
C8_RejectedByDecode ==
    \A r \in Requests :
        (pc[r] = "done" /\ NoImageField(r)) =>
            /\ resp[r] = [code |-> 400,
                          body |-> [status |-> "fail", message |-> PredictFailMsg]]
            /\ thrown[r] = InputError(PredictFailMsg)
            /\ calls[r] = [decode |-> 1, predict |-> 0, data |-> 0, store |-> 0]
            /\ \A q \in Requests :
                  (pc[q] = "done" /\ req[q].image = NotJpeg /\ thrown[q].name = "InputError") =>
                      resp[q] = resp[r] /\ calls[q] = calls[r] /\ thrown[q] = thrown[r]

\* A request with no image field and one with bytes that are no JPEG have
\* both been answered.
C8_Witness ==
    \E r, q \in Requests :
        /\ pc[r] = "done" /\ NoImageField(r)
        /\ pc[q] = "done" /\ req[q].image = NotJpeg /\ thrown[q].name = "InputError"

\* C9: every outcome assembled is handed to the store by exactly one store
\* call, under an identifier no other request has; every document in the
\* store is the outcome of the one request that has its key; and a document
\* once in the store stays there unchanged.
C9_StoredOnceNeverChanged ==
    /\ [](\A r \in Requests :
            /\ calls[r].store <= 1
            /\ (loc[r] # NoLoc) = (calls[r].store = 1)
            /\ loc[r] # NoLoc => \A q \in Requests \ { r } : loc[q].id # loc[r].id)
    /\ [](\A k \in DOMAIN store :
            \E r \in Requests : loc[r].id = k /\ store[k] = Outcome(loc[r]))
    /\ [][\A k \in DOMAIN store : k \in DOMAIN store' /\ store'[k] = store[k]]_vars

\* The store holds one document per request slot.
C9_Witness ==
    /\ Cardinality(DOMAIN store) = MaxRequests
    /\ \A r \in Requests : pc[r] = "done" /\ resp[r].code = 201

\* C10 as stated: a download is asked of the blob store only for a file the
\* model directory does not hold.
C10_FetchOnlyIfAbsent ==
    fetching # 0 => Artifacts[fetching] \notin localFiles

\* C10 as the code has it: every startup asks the blob store for every
\* artifact file, whether or not the model directory holds it; by the time
\* loadModel is past artifact i, this process has downloaded it once.
C10_FetchAlways ==
    /\ boot \in { "loading", "starting", "serving" } =>
          \A i \in 1..Len(Artifacts) : issued[i] = 1
    /\ boot = "downloading" =>
          \A i \in 1..Len(Artifacts) : issued[i] = IF i <= fetching THEN 1 ELSE 0

\* A download is in flight for a file the model directory already holds.
C10_Witness ==
    /\ boot = "downloading"
    /\ fetching = Len(Artifacts)
    /\ Artifacts[fetching] \in localFiles
    /\ issued[fetching] = 1

\* An outcome as the spec's data model has it: one of the two labels, the
\* message paired with the label, an identifier randomUUID has returned and a
\* timestamp read from the clock, both taken by one request.
WellFormed(d) ==
    /\ d.result \in { "Cancer", "Non-cancer" }
    /\ d.suggestion = IF d.result = "Cancer" THEN CancerMsg ELSE NonCancerMsg
    /\ d.id # 0
    /\ d.id \in usedIds
    /\ d.createdAt \in 0..now
    /\ \E r \in Requests :
          calls[r].store = 1 /\ loc[r].id = d.id /\ loc[r].createdAt = d.createdAt

\* C11: every document in the store and every data object of a 201 response
\* has one of the two results, the suggestion paired with that result, and
\* the identifier and timestamp generated for its request.
C11_OutcomesWellFormed ==
    /\ \A k \in DOMAIN store : WellFormed(store[k])
    /\ \A r \in Requests : resp[r].code = 201 => WellFormed(resp[r].body.data)

\* The store holds a Cancer and a Non-cancer document, and one of the two
\* requests has its 201.
C11_Witness ==
    /\ \E k \in DOMAIN store : store[k].result = "Cancer"
    /\ \E k \in DOMAIN store : store[k].result = "Non-cancer"
    /\ \E r \in Requests : resp[r].code = 201

\* A request the handler has taken up and not yet answered.
InFlight(r) == pc[r] \in { "scoring", "storing", "stored" }

\* C12: given that every external call returns or fails, a request the
\* handler has taken up is eventually answered; an answered request is in
\* one terminal state, Responded (201) or Failed (an error), keeps the one
\* response it got, and has seen the model invoked at most once and store
\* called at most once.
C12_OneTerminalState ==
    /\ \A r \in Requests : InFlight(r) ~> (pc[r] = "done")
    /\ [](\A r \in Requests :
            /\ calls[r].decode <= 1
            /\ calls[r].predict <= 1
            /\ calls[r].data <= 1
            /\ calls[r].store <= 1
            /\ (pc[r] = "done") = (resp[r] # NoResp)
            /\ pc[r] = "done" => (resp[r].code = 201) # (thrown[r] # NoError)
            /\ thrown[r] # NoError => pc[r] = "done")
    /\ [][\A r \in Requests :
            pc[r] = "done" => pc'[r] = "done" /\ resp'[r] = resp[r]
                              /\ calls'[r] = calls[r] /\ thrown'[r] = thrown[r]]_vars

\* One request has ended Responded and one Failed at the store.
C12_Witness ==
    \E r, q \in Requests :
        /\ pc[r] = "done" /\ resp[r].code = 201 /\ calls[r].predict = 1
        /\ pc[q] = "done" /\ thrown[q] \in StoreErrors /\ calls[q].store = 1

\* C13: once startup has installed the model, neither the global nor
\* server.app.model changes again; no step of a request changes them; and
\* every request that reached the handler took from server.app the very
\* model loadModel loaded.
C13_HandleReadOnly ==
    /\ [][appModel # NoModel => appModel' = appModel /\ model' = model]_vars
    /\ [][(pc' # pc \/ handle' # handle) => appModel' = appModel /\ model' = model]_vars
    /\ [](\A r \in Requests :
            calls[r].decode = 1 =>
                handle[r] = appModel /\ handle[r] = model /\ handle[r] = LoadedModel)

\* Two requests have read the handle: one failed, one was answered 201.
C13_Witness ==
    \E r, q \in Requests :
        /\ handle[r] = LoadedModel /\ thrown[r] # NoError /\ calls[r].decode = 1
        /\ handle[q] = LoadedModel /\ resp[q].code = 201
        /\ appModel = LoadedModel

\* C14: in one startup each artifact file is asked of the blob store at
\* most once, and exactly once by the time the model is loaded; a download
\* is in flight only when every earlier file has been downloaded and is in
\* the model directory and no later one has been asked for; the model is
\* loaded after all of them; and no download is issued once a request has
\* been taken up.
C14_DownloadsOnceInOrder ==
    /\ [](\A i \in 1..Len(Artifacts) : issued[i] <= 1)
    /\ [](fetching # 0 =>
            /\ boot = "downloading"
            /\ model = NoModel
            /\ \A j \in 1..Len(Artifacts) :
                  /\ j < fetching => issued[j] = 1 /\ Artifacts[j] \in localFiles
                  /\ j = fetching => issued[j] = 1
                  /\ j > fetching => issued[j] = 0)
    /\ []((model # NoModel \/ boot \in { "loading", "starting", "serving" }) =>
            /\ fetching = 0
            /\ \A i \in 1..Len(Artifacts) : issued[i] = 1 /\ Artifacts[i] \in localFiles)
    /\ [][issued' # issued =>
            /\ boot \in { "main", "downloading" }
            /\ \A r \in Requests : pc[r] = "idle" /\ pc'[r] = "idle"]_vars

\* The server serves, every file has been downloaded once, and a request is
\* waiting on its store call.
C14_Witness ==
    /\ boot = "serving"
    /\ \A i \in 1..Len(Artifacts) : issued[i] = 1
    /\ \E r \in Requests : pc[r] = "storing"

\* C15: a request that ended in an error, whether the InputError of the
\* classification, the store's error or a rejection by the framework (no
\* route, body over the limit, body not multipart), has been answered, with
\* the body {status: "fail", message} carrying the error's message, and
\* with status 400 for an InputError and the error's output status otherwise.
C15_UniformErrorEnvelope ==
    \A r \in Requests :
        thrown[r] # NoError =>
            /\ pc[r] = "done"
            /\ resp[r] # NoResp
            /\ resp[r].body = [status |-> "fail", message |-> thrown[r].message]
            /\ resp[r].code = IF thrown[r].name = "InputError"
                              THEN 400
                              ELSE Boomify(thrown[r]).output
            /\ resp[r].code >= 400

\* A body that is not multipart was rejected by the framework, and another
\* request failed in classification.
C15_Witness ==
    \E r, q \in Requests :
        /\ thrown[r].isBoom /\ resp[r].code = 415
        /\ thrown[q].name = "InputError" /\ resp[q].code = 400

\* C16: every document in the store is under the key that is its own id
\* field, so the identifier the listing format reports for a document, both
\* as id and as history.id, is the id inside it, and the id a 201 response
\* returned is the one the listing format reports for that outcome.
C16_KeyedByOwnId ==
    /\ \A k \in DOMAIN store : store[k].id = k
    /\ \A e \in Listing(store) :
          e.id = store[e.id].id /\ e.history.id = store[e.id].id
    /\ \A r \in Requests :
          resp[r].code = 201 =>
              \E e \in Listing(store) :
                  /\ e.id = resp[r].body.data.id
                  /\ e.history.result = resp[r].body.data.result
                  /\ e.history.createdAt = resp[r].body.data.createdAt
                  /\ e.history.suggestion = resp[r].body.data.suggestion

\* Two documents are in the store, one of them already returned in a 201.
C16_Witness ==
    /\ Cardinality(DOMAIN store) = 2
    /\ \E r \in Requests : resp[r].code = 201 /\ resp[r].body.data.id \in DOMAIN store
    /\ \E r \in Requests : pc[r] = "stored"

====
